---- MODULE Spec2Model ----
(***************************************************************************)
(* TranslationService (translation.service.ts): the current language, the  *)
(* translation bundle and the loading flag, the initialisation from        *)
(* localStorage / navigator.language, setLanguage, toggleLanguage and the  *)
(* asynchronous loadTranslations.                                           *)
(*                                                                         *)
(* Strings are sequences of one-character strings, so that                 *)
(* navigator.language.slice(0, 2) and the URL template are computed.       *)
(*                                                                         *)
(* A step of the model is one task of the event loop together with the     *)
(* promise continuations (microtasks) it schedules: a call of a public     *)
(* method up to its suspension at the HTTP request, or the arrival of an   *)
(* HTTP response followed by the rest of loadTranslations and of the       *)
(* setLanguage / toggleLanguage call that awaits it.                       *)
(***************************************************************************)
EXTENDS Integers, Sequences, FiniteSets, TLC

VARIABLES isBrowser, navigatorLanguage, localStorage,
          currentLanguage, translations, isLoading,
          requests, calls, getItemCalls, setItemCalls, lastLoad

vars == <<isBrowser, navigatorLanguage, localStorage,
          currentLanguage, translations, isLoading,
          requests, calls, getItemCalls, setItemCalls, lastLoad>>

\* Number of setLanguage / toggleLanguage calls explored.
MaxCalls == 3

-----------------------------------------------------------------------------
\* Strings and the values of the environment

De == <<"d", "e">>
En == <<"e", "n">>
Fr == <<"f", "r">>

\* export const SUPPORTED_LANGUAGES = ['de', 'en'] as const
SUPPORTED_LANGUAGES == <<De, En>>

\* The values of the type Language
Language == {SUPPORTED_LANGUAGES[i] : i \in 1..Len(SUPPORTED_LANGUAGES)}

\* Array.prototype.includes
includes(arr, x) == \E i \in 1..Len(arr) : arr[i] = x

\* String.prototype.slice(start, end) for 0 <= start <= end
slice(s, start, end) ==
    IF end < Len(s) THEN SubSeq(s, start + 1, end) ELSE SubSeq(s, start + 1, Len(s))

\* null: distinct from every string (a string's elements are single characters)
Null == <<"null">>

\* JavaScript truthiness of a value of type string | null
Truthy(v) == v # Null /\ v # <<>>

\* Storage.getItem
getItem(store, key) == IF key \in DOMAIN store THEN store[key] ELSE Null

\* Storage.setItem
setItem(store, key, value) ==
    [k \in DOMAIN store \cup {key} |-> IF k = key THEN value ELSE store[k]]

\* The bundled public/i18n/de.json
defaultTranslations == [placeholder |-> <<"d", "e", ".", "j", "s", "o", "n">>]

\* `/i18n/${lang}.json`
Url(lang) == <<"/", "i", "1", "8", "n", "/">> \o lang \o <<".", "j", "s", "o", "n">>

\* The body a successful GET of url delivers: the static file at url, which
\* is not the bundled de.json
ResponseBody(url) == [placeholder |-> url]

\* Contents of localStorage when the service is constructed in a browser
InitialStorages ==
    {<<>>} \cup {"language" :> v : v \in {<<>>, De, En, Fr}}

\* Values of navigator.language
Locales ==
    { <<"d", "e", "-", "D", "E">>, <<"e", "n", "-", "U", "S">>,
      <<"f", "r", "-", "F", "R">>, <<"e", "n">>, <<"E", "N">>, <<"e">>, <<>> }

-----------------------------------------------------------------------------
\* getInitialLanguage() returning the browser language without the
\* SUPPORTED_LANGUAGES check
getInitialLanguage_anyLocale(browser, store, navLang) ==
    IF ~browser THEN De
    ELSE LET stored == getItem(store, "language") IN
         IF Truthy(stored) THEN stored
         ELSE slice(navLang, 0, 2)

\* getInitialLanguage() consulting the browser language before the stored
\* preference
getInitialLanguage_localeFirst(browser, store, navLang) ==
    IF ~browser THEN De
    ELSE LET browserLang == slice(navLang, 0, 2)
             stored == getItem(store, "language") IN
         IF includes(SUPPORTED_LANGUAGES, browserLang) THEN browserLang
         ELSE IF Truthy(stored) THEN stored
         ELSE De

\* getInitialLanguage(): server, then stored preference, then browser
\* language, then 'de'
getInitialLanguage(browser, store, navLang) ==
    IF ~browser THEN De
    ELSE LET stored == getItem(store, "language") IN
         IF Truthy(stored) THEN stored
         ELSE LET browserLang == slice(navLang, 0, 2) IN
              IF includes(SUPPORTED_LANGUAGES, browserLang) THEN browserLang
              ELSE De

\* The requests that have been issued and not answered
Outstanding == {r \in DOMAIN requests : requests[r].status = "pending"}

\* The signals and the HTTP requests as one record, for loadTranslations
Signals == [translations |-> translations, isLoading |-> isLoading,
            requests |-> requests, lastLoad |-> lastLoad]

\* A catch block that leaves the bundle as it is
translationsOnError_keep(old) == old

\* The bundle set when the GET fails (catch block)
translationsOnError(old) == defaultTranslations

\* loadTranslations without the finally block
isLoadingFinally_keep(old) == old

\* The loading flag set in the finally block
isLoadingFinally(old) == FALSE

\* loadTranslations without the branch for the bundled language
loadTranslations_alwaysFetch(lang, call, s) ==
    [s EXCEPT !.isLoading = TRUE,
              !.requests = Append(@, [url |-> Url(lang), status |-> "pending",
                                      call |-> call])]

\* loadTranslations whose branch for the bundled language leaves the bundle
loadTranslations_keepBundle(lang, call, s) ==
    IF lang = De
    THEN [s EXCEPT !.lastLoad = [kind |-> "bundled", body |-> defaultTranslations]]
    ELSE [s EXCEPT !.isLoading = TRUE,
                   !.requests = Append(@, [url |-> Url(lang), status |-> "pending",
                                           call |-> call])]

\* loadTranslations whose branch for the bundled language clears the flag
loadTranslations_clearFlag(lang, call, s) ==
    IF lang = De
    THEN [s EXCEPT !.translations = defaultTranslations,
                   !.isLoading = FALSE,
                   !.lastLoad = [kind |-> "bundled", body |-> defaultTranslations]]
    ELSE [s EXCEPT !.isLoading = TRUE,
                   !.requests = Append(@, [url |-> Url(lang), status |-> "pending",
                                           call |-> call])]

\* loadTranslations(lang) up to its return ('de') or its suspension at the
\* GET; call is the setLanguage call that awaits it (0: the constructor)
loadTranslations(lang, call, s) ==
    IF lang = De
    THEN [s EXCEPT !.translations = defaultTranslations,
                   !.lastLoad = [kind |-> "bundled", body |-> defaultTranslations]]
    ELSE [s EXCEPT !.isLoading = TRUE,
                   !.requests = Append(@, [url |-> Url(lang), status |-> "pending",
                                           call |-> call])]

\* The state the constructor leaves: field initialisers, then
\* loadTranslations(this._currentLanguage())
Constructed(browser, store, navLang) ==
    loadTranslations(getInitialLanguage(browser, store, navLang), 0,
                     [translations |-> defaultTranslations, isLoading |-> FALSE,
                      requests |-> <<>>,
                      lastLoad |-> [kind |-> "none", body |-> defaultTranslations]])

Init ==
    /\ isBrowser \in BOOLEAN
    /\ navigatorLanguage \in Locales
    /\ localStorage \in (IF isBrowser THEN InitialStorages ELSE {<<>>})
    /\ currentLanguage = getInitialLanguage(isBrowser, localStorage, navigatorLanguage)
    /\ LET s == Constructed(isBrowser, localStorage, navigatorLanguage) IN
        /\ translations = s.translations
        /\ isLoading = s.isLoading
        /\ requests = s.requests
        /\ lastLoad = s.lastLoad
    /\ calls = <<>>
    /\ getItemCalls = IF isBrowser THEN 1 ELSE 0
    /\ setItemCalls = 0

\* What a caller sees of the state when it makes a call
Observed == [currentLanguage |-> currentLanguage, translations |-> translations,
             isLoading |-> isLoading, quiet |-> Outstanding = {}]

\* setLanguage without the early return
sameLanguage_never(lang, cur) == FALSE

\* if (lang === this._currentLanguage()) return;
sameLanguage(lang, cur) == lang = cur

\* setLanguage that does not update the signal
languageSet_keep(lang, cur) == cur

\* this._currentLanguage.set(lang)
languageSet(lang, cur) == lang

\* setLanguage writing the preference without the isBrowser check
persist_always(browser, store, lang) == setItem(store, "language", lang)

\* if (this.isBrowser) localStorage.setItem('language', lang)
persist(browser, store, lang) ==
    IF browser THEN setItem(store, "language", lang) ELSE store

\* The body of setLanguage(lang), called directly (op = "setLanguage") or
\* by toggleLanguage (op = "toggleLanguage")
setLanguage(op, lang) ==
    /\ Len(calls) < MaxCalls
    /\ IF sameLanguage(lang, currentLanguage)
       THEN /\ calls' = Append(calls, [op |-> op, lang |-> lang, changed |-> FALSE,
                                       req |-> 0, pc |-> "fulfilled", pre |-> Observed])
            /\ UNCHANGED <<currentLanguage, localStorage, setItemCalls,
                           translations, isLoading, requests, lastLoad>>
       ELSE LET s == loadTranslations(lang, Len(calls) + 1, Signals) IN
            /\ currentLanguage' = languageSet(lang, currentLanguage)
            /\ localStorage' = persist(isBrowser, localStorage, lang)
            /\ setItemCalls' = IF isBrowser THEN setItemCalls + 1 ELSE setItemCalls
            /\ translations' = s.translations
            /\ isLoading' = s.isLoading
            /\ requests' = s.requests
            /\ lastLoad' = s.lastLoad
            /\ calls' = Append(calls,
                   [op |-> op, lang |-> lang, changed |-> TRUE,
                    req |-> IF Len(s.requests) > Len(requests)
                            THEN Len(s.requests) ELSE 0,
                    pc |-> IF Len(s.requests) > Len(requests)
                           THEN "pending" ELSE "fulfilled",
                    pre |-> Observed])
    /\ UNCHANGED <<isBrowser, navigatorLanguage, getItemCalls>>

\* A caller invokes setLanguage(lang)
SetLanguage(lang) ==
    /\ lang \in Language
    /\ setLanguage("setLanguage", lang)

\* toggleLanguage with both branches of the conditional 'en'
otherLanguage_alwaysEn(cur) == En

\* const newLang = this._currentLanguage() === 'de' ? 'en' : 'de'
otherLanguage(cur) == IF cur = De THEN En ELSE De

\* A caller invokes toggleLanguage()
ToggleLanguage ==
    /\ TRUE
    /\ setLanguage("toggleLanguage", otherLanguage(currentLanguage))

\* The calls that await request r, resumed with the given outcome
Resume(r, outcome) ==
    [c \in DOMAIN calls |-> IF calls[c].req = r THEN [calls[c] EXCEPT !.pc = outcome]
                            ELSE calls[c]]

\* The GET of request r succeeds: try block, finally block, and the
\* awaiting call resumes
FetchSuccess(r) ==
    /\ r \in Outstanding
    /\ translations' = ResponseBody(requests[r].url)
    /\ isLoading' = isLoadingFinally(isLoading)
    /\ requests' = [requests EXCEPT ![r].status = "success"]
    /\ lastLoad' = [kind |-> "success", body |-> ResponseBody(requests[r].url)]
    /\ calls' = Resume(r, "fulfilled")
    /\ UNCHANGED <<isBrowser, navigatorLanguage, localStorage, currentLanguage,
                   getItemCalls, setItemCalls>>

\* The GET of request r fails: catch block, finally block, and the awaiting
\* call resumes
FetchError(r) ==
    /\ r \in Outstanding
    /\ translations' = translationsOnError(translations)
    /\ isLoading' = isLoadingFinally(isLoading)
    /\ requests' = [requests EXCEPT ![r].status = "error"]
    /\ lastLoad' = [kind |-> "error", body |-> defaultTranslations]
    /\ calls' = Resume(r, "fulfilled")
    /\ UNCHANGED <<isBrowser, navigatorLanguage, localStorage, currentLanguage,
                   getItemCalls, setItemCalls>>

Next ==
    \/ \E lang \in Language : SetLanguage(lang)
    \/ ToggleLanguage
    \/ \E r \in DOMAIN requests : FetchSuccess(r)
    \/ \E r \in DOMAIN requests : FetchError(r)

Spec == Init /\ [][Next]_vars

\* Request r is answered, by success or by failure
Respond(r) == FetchSuccess(r) \/ FetchError(r)

\* Every outstanding fetch is eventually answered
FairSpec == Spec /\ \A r \in 1..(MaxCalls + 1) : WF_vars(Respond(r))

-----------------------------------------------------------------------------
\* Properties

\* Call c completes in this step: it returns at once, or the request it
\* awaits is answered
Completes(c) ==
    /\ c \in DOMAIN calls'
    /\ calls'[c].pc = "fulfilled"
    /\ c \in DOMAIN calls => calls[c].pc = "pending"

\* No call after call c has changed the language
NoLaterChange(c) == \A d \in (c + 1)..Len(calls') : ~calls'[d].changed

\* C1 as stated: at the moment any setLanguage(L) call completes,
\* currentLanguage equals L, whatever calls were made in between.
C1_AsStated ==
    [][\A c \in 1..Len(calls') :
          Completes(c) => currentLanguage' = calls'[c].lang]_vars

\* C1 (amended): at the moment a setLanguage(L) call completes,
\* currentLanguage equals L provided no later call has changed the language
\* before the completion.
C1_CompletedLanguage ==
    [][\A c \in 1..Len(calls') :
          Completes(c) /\ NoLaterChange(c) => currentLanguage' = calls'[c].lang]_vars

\* A call that was made while an earlier fetch was outstanding has completed
\* by the answer to its own fetch, with no later call, and its language is
\* the current one.
C1_Witness ==
    \E c \in DOMAIN calls :
        /\ c = Len(calls)
        /\ calls[c].req # 0
        /\ ~calls[c].pre.quiet
        /\ calls[c].pc = "fulfilled"
        /\ currentLanguage = calls[c].lang

\* C2 as stated: whenever currentLanguage is 'de', isLoading is false and no
\* fetch is outstanding.
C2_AsStated == currentLanguage = De => (~isLoading /\ Outstanding = {})

\* C2 (amended): no fetch for 'de' is ever issued, a transition that selects
\* 'de' issues no fetch and leaves isLoading as it is, and when
\* currentLanguage is 'de' and no fetch of an earlier selection is
\* outstanding isLoading is false.
C2_FallbackNoFetch ==
    /\ [](/\ \A r \in DOMAIN requests : requests[r].url # Url(De)
          /\ (currentLanguage = De /\ Outstanding = {}) => ~isLoading)
    /\ [][(currentLanguage' = De /\ currentLanguage # De)
             => (requests' = requests /\ isLoading' = isLoading)]_vars

\* setLanguage('de') has selected 'de' while the fetch of an earlier
\* selection is outstanding.
C2_Witness ==
    /\ currentLanguage = De
    /\ Outstanding # {}
    /\ isLoading
    /\ calls # <<>>
    /\ calls[Len(calls)].lang = De
    /\ calls[Len(calls)].changed

\* C3: in every reachable state currentLanguage is a supported language.
C3_SupportedLanguage == currentLanguage \in Language

\* Request r fails in this step
Fails(r) == requests[r].status = "pending" /\ requests'[r].status = "error"

\* C4: when the fetch of the latest call, setLanguage(L) with L not 'de',
\* fails, the call completes with the default bundle, currentLanguage L,
\* isLoading false and a fulfilled (not rejected) promise.
C4_FailedFetch ==
    [][\A r \in DOMAIN requests :
          LET c == requests[r].call IN
          (Fails(r) /\ c # 0 /\ c = Len(calls))
             => /\ translations' = defaultTranslations
                /\ currentLanguage' = calls[c].lang
                /\ calls[c].lang # De
                /\ ~isLoading'
                /\ calls'[c].pc = "fulfilled"]_vars

\* The fetch of the latest call has failed after another fetch had delivered
\* a bundle.
C4_Witness ==
    /\ calls # <<>>
    /\ LET c == Len(calls) IN
        /\ calls[c].req # 0
        /\ requests[calls[c].req].status = "error"
        /\ calls[c].pc = "fulfilled"
        /\ currentLanguage = calls[c].lang
        /\ translations = defaultTranslations
        /\ lastLoad.kind = "error"
    /\ \E r \in DOMAIN requests : requests[r].status = "success"

\* C5: a call of setLanguage with the current language writes nothing to
\* storage, issues no fetch and leaves currentLanguage, the bundle and
\* isLoading unchanged.
C5_SameLanguageNoOp ==
    [][(Len(calls') = Len(calls) + 1 /\ calls'[Len(calls')].lang = currentLanguage)
          => UNCHANGED <<localStorage, setItemCalls, requests, currentLanguage,
                         translations, isLoading>>]_vars

\* setLanguage('en') was called when 'en' was current with the default
\* bundle left by a failed load.
C5_Witness ==
    \E c \in DOMAIN calls :
        /\ calls[c].op = "setLanguage"
        /\ calls[c].lang = En
        /\ calls[c].pre.currentLanguage = En
        /\ calls[c].pre.translations = defaultTranslations
        /\ calls[c].pre.quiet
        /\ ~calls[c].changed

\* The last two calls are toggleLanguage calls, each made with no fetch
\* outstanding, and the fetches they issued have been answered
ToggledTwice ==
    /\ Len(calls) >= 2
    /\ calls[Len(calls) - 1].op = "toggleLanguage"
    /\ calls[Len(calls)].op = "toggleLanguage"
    /\ calls[Len(calls) - 1].pre.quiet
    /\ calls[Len(calls)].pre.quiet
    /\ Outstanding = {}

\* What the caller saw before the first of the last two calls
BeforeToggles == calls[Len(calls) - 1].pre

\* C6 as stated: two successive toggleLanguage calls, each fetch answered
\* before the next call, return currentLanguage and the bundle to the
\* values they had before the first call (stated for the starting states
\* whose language is a supported one).
C6_AsStated ==
    (ToggledTwice /\ BeforeToggles.currentLanguage \in Language)
                 => /\ currentLanguage = BeforeToggles.currentLanguage
                    /\ translations = BeforeToggles.translations

\* C6 (amended): after two such toggleLanguage calls currentLanguage is
\* 'de' if it was 'de' before and 'en' otherwise; the bundle is the default
\* bundle if the language was 'de' before, and otherwise what the second
\* call's fetch left (its content, or the default bundle if it failed); so
\* the bundle is restored when the start was 'de' with the default bundle.
C6_ToggleTwice ==
    ToggledTwice =>
        IF BeforeToggles.currentLanguage = De
        THEN /\ currentLanguage = De
             /\ translations = defaultTranslations
             /\ BeforeToggles.translations = defaultTranslations
                    => translations = BeforeToggles.translations
        ELSE /\ currentLanguage = En
             /\ requests[calls[Len(calls)].req].url = Url(En)
             /\ \/ /\ requests[calls[Len(calls)].req].status = "success"
                   /\ translations = ResponseBody(Url(En))
                \/ /\ requests[calls[Len(calls)].req].status = "error"
                   /\ translations = defaultTranslations

\* Two toggles from 'en' with a fetched bundle, the second fetch failed:
\* the language is 'en' again and the bundle is the default bundle.
C6_Witness ==
    /\ ToggledTwice
    /\ BeforeToggles.currentLanguage = En
    /\ BeforeToggles.translations = ResponseBody(Url(En))
    /\ currentLanguage = En
    /\ translations = defaultTranslations

\* C7: the bundle is the default bundle or the content of a successful
\* fetch, and it is what the most recently completed load set: the content
\* of a successful fetch, the default bundle after a failed fetch or a load
\* of 'de' (and the default bundle before any load has completed).
C7_BundleOfLastLoad ==
    /\ translations \in {defaultTranslations} \cup
           {ResponseBody(requests[r].url) :
               r \in {q \in DOMAIN requests : requests[q].status = "success"}}
    /\ lastLoad.kind = "success" => translations = lastLoad.body
    /\ lastLoad.kind \in {"error", "bundled"} => translations = defaultTranslations
    /\ lastLoad.kind = "none" => translations = defaultTranslations

\* A failed fetch was the last load to complete, after a successful one.
C7_Witness ==
    /\ lastLoad.kind = "error"
    /\ translations = defaultTranslations
    /\ \E r \in DOMAIN requests : requests[r].status = "success"
    /\ \E r \in DOMAIN requests : requests[r].status = "error"

NoCallYet == calls = <<>>

\* C9: in a browser with no stored preference and a locale whose first two
\* characters are not a supported language, the constructor selects 'de'
\* with the default bundle, issues no fetch and leaves isLoading false.
C9_InitFallback ==
    (/\ NoCallYet
     /\ isBrowser
     /\ getItem(localStorage, "language") = Null
     /\ ~includes(SUPPORTED_LANGUAGES, slice(navigatorLanguage, 0, 2)))
        => /\ currentLanguage = De
           /\ translations = defaultTranslations
           /\ requests = <<>>
           /\ ~isLoading

\* Constructed in a browser with empty storage and the locale 'fr-FR'.
C9_Witness ==
    /\ NoCallYet
    /\ isBrowser
    /\ localStorage = <<>>
    /\ slice(navigatorLanguage, 0, 2) = Fr
    /\ currentLanguage = De
    /\ requests = <<>>

\* C10: in a browser a stored supported preference is selected whatever the
\* locale; with no stored preference a supported locale subtag is selected;
\* and when 'en' is selected exactly one fetch, of /i18n/en.json, is issued
\* and the bundle is the default bundle while that fetch is outstanding.
C10_InitPriority ==
    (NoCallYet /\ isBrowser) =>
        LET stored == getItem(localStorage, "language")
            subtag == slice(navigatorLanguage, 0, 2) IN
        /\ stored \in Language => currentLanguage = stored
        /\ (stored = Null /\ subtag \in Language) => currentLanguage = subtag
        /\ currentLanguage = En =>
              /\ Len(requests) = 1
              /\ requests[1].url = Url(En)
              /\ requests[1].status = "pending"
                    => (translations = defaultTranslations /\ isLoading)

\* Constructed with the stored preference 'en' and a 'de' locale: 'en' is
\* selected and its fetch is outstanding.
C10_Witness ==
    /\ NoCallYet
    /\ isBrowser
    /\ getItem(localStorage, "language") = En
    /\ slice(navigatorLanguage, 0, 2) = De
    /\ currentLanguage = En
    /\ Len(requests) = 1
    /\ requests[1].status = "pending"
    /\ translations = defaultTranslations

\* The latest call
LastCall == calls[Len(calls)]

\* C11: on the server the service never reads or writes storage: the
\* constructor selects 'de' whatever the locale, and after any calls the
\* storage is untouched while currentLanguage is the language of the
\* latest call and a change to 'en' has issued the GET of /i18n/en.json.
C11_ServerNoStorage ==
    ~isBrowser =>
        /\ getItemCalls = 0
        /\ setItemCalls = 0
        /\ localStorage = <<>>
        /\ NoCallYet => (currentLanguage = De /\ requests = <<>>)
        /\ ~NoCallYet =>
              /\ currentLanguage = LastCall.lang
              /\ (LastCall.changed /\ LastCall.lang = En) =>
                    /\ LastCall.req # 0
                    /\ requests[LastCall.req].url = Url(En)
              /\ (LastCall.changed /\ LastCall.lang = De /\ LastCall.pre.quiet) =>
                    translations = defaultTranslations

\* On the server with an 'en' locale a call has selected 'en' and its
\* bundle has been loaded, with no storage access.
C11_Witness ==
    /\ ~isBrowser
    /\ slice(navigatorLanguage, 0, 2) = En
    /\ ~NoCallYet
    /\ LastCall.changed
    /\ currentLanguage = En
    /\ translations = ResponseBody(Url(En))
    /\ getItemCalls = 0
    /\ setItemCalls = 0

\* The bundle of a language: the bundled file for 'de', the file fetched
\* for any other
BundleOf(lang) == IF lang = De THEN defaultTranslations ELSE ResponseBody(Url(lang))

\* No fetch is outstanding, none has failed, and the bundle is not the
\* bundle of currentLanguage
Mismatch ==
    /\ Outstanding = {}
    /\ \A r \in DOMAIN requests : requests[r].status = "success"
    /\ translations # BundleOf(currentLanguage)

\* C12: overlapping calls are not coordinated, the answer that arrives
\* last wins: a state with no fetch outstanding and no failed fetch whose
\* bundle is not that of currentLanguage is reachable, and in every such
\* state the bundle is the content of the last answered fetch, which was
\* overtaken by a call that changed the language while a fetch was
\* outstanding.
C12_LastWriteWins ==
    Mismatch =>
        /\ lastLoad.kind = "success"
        /\ translations = lastLoad.body
        /\ \E c \in DOMAIN calls : calls[c].changed /\ ~calls[c].pre.quiet

\* setLanguage('en') then setLanguage('de'), then the 'en' fetch succeeds:
\* 'de' is current with the 'en' bundle.
C12_Witness ==
    /\ Mismatch
    /\ currentLanguage = De
    /\ translations = ResponseBody(Url(En))
    /\ \E c \in DOMAIN calls :
          /\ calls[c].lang = De
          /\ calls[c].changed
          /\ calls[c].pre.currentLanguage = En
          /\ ~calls[c].pre.quiet

\* Every request issued so far is a GET of /i18n/en.json
OnlyEnRequests == \A r \in DOMAIN requests : requests[r].url = Url(En)

\* C13: whenever a fetch is outstanding isLoading is true (stated for
\* fetches of the supported language 'en').
C13_OutstandingImpliesLoading ==
    (OnlyEnRequests /\ Outstanding # {}) => isLoading

\* C14: while the fetch of the latest call, which changed the language to
\* L, is outstanding, currentLanguage is L, the stored key is L in a
\* browser, and isLoading is true (stated for fetches of 'en').
C14_OrderWithinCall ==
    (/\ OnlyEnRequests
     /\ ~NoCallYet
     /\ LastCall.changed
     /\ LastCall.req # 0
     /\ LastCall.req \in Outstanding)
        => /\ currentLanguage = LastCall.lang
           /\ isBrowser => getItem(localStorage, "language") = LastCall.lang
           /\ isLoading

\* C15: if every outstanding fetch is eventually answered, every
\* setLanguage / toggleLanguage call eventually completes, and eventually
\* (once no further call is made) no fetch is outstanding and isLoading is
\* false for good.
C15_Terminates ==
    /\ \A c \in 1..MaxCalls :
          (c \in DOMAIN calls) ~> (c \in DOMAIN calls /\ calls[c].pc = "fulfilled")
    /\ <>[](Outstanding = {} /\ ~isLoading)

\* Calls that overlapped an outstanding fetch have all completed, nothing
\* is outstanding and isLoading is false.
C15_Witness ==
    /\ Len(calls) >= 2
    /\ \E c \in DOMAIN calls : calls[c].req # 0 /\ ~calls[c].pre.quiet
    /\ \A c \in DOMAIN calls : calls[c].pc = "fulfilled"
    /\ Cardinality(DOMAIN requests) >= 2
    /\ Outstanding = {}
    /\ ~isLoading

\* This step is a call that changes the language to 'de'
SelectsFallback ==
    /\ Len(calls') = Len(calls) + 1
    /\ calls'[Len(calls')].lang = De
    /\ currentLanguage # De

\* C16: setLanguage('de') from another language sets the default bundle in
\* the step of the language change, issues no fetch, completes at once and
\* leaves isLoading as it was, also when it was true.
C16_FallbackSynchronous ==
    [][SelectsFallback =>
          /\ currentLanguage' = De
          /\ translations' = defaultTranslations
          /\ requests' = requests
          /\ isLoading' = isLoading
          /\ calls'[Len(calls')].pc = "fulfilled"]_vars

\* The latest call selected 'de' while a fetch was outstanding and
\* isLoading was true; isLoading is still true.
C16_Witness ==
    /\ ~NoCallYet
    /\ LastCall.lang = De
    /\ LastCall.changed
    /\ LastCall.pre.isLoading
    /\ LastCall.pc = "fulfilled"
    /\ translations = defaultTranslations
    /\ isLoading

\* Every call was made with no fetch outstanding
Sequential == \A c \in DOMAIN calls : calls[c].pre.quiet

\* C17: under sequential use, when no fetch is outstanding the bundle
\* matches currentLanguage: the default bundle for 'de'; for another
\* language the latest fetch is the one of that language and the bundle is
\* its content if it succeeded and the default bundle if it failed.
C17_SequentialMatch ==
    (Sequential /\ Outstanding = {}) =>
        IF currentLanguage = De
        THEN translations = defaultTranslations
        ELSE /\ requests # <<>>
             /\ LET r == requests[Len(requests)] IN
                 /\ r.url = Url(currentLanguage)
                 /\ r.status = "success" => translations = BundleOf(currentLanguage)
                 /\ r.status = "error" => translations = defaultTranslations
                 /\ translations = defaultTranslations <=> r.status = "error"

\* Sequential calls 'en' ... 'de' ... 'en' whose last fetch failed: 'en'
\* with the default bundle.
C17_Witness ==
    /\ Sequential
    /\ Outstanding = {}
    /\ Len(calls) >= 2
    /\ LastCall.changed
    /\ currentLanguage = En
    /\ translations = defaultTranslations
    /\ requests[Len(requests)].status = "error"
    /\ \E r \in DOMAIN requests : requests[r].status = "success"

\* C18: the key 'language' is written only by a call that changes the
\* language (never by the answer to a fetch), one write for each such call
\* in a browser, and whenever the key holds a non-empty value that value is
\* currentLanguage.
C18_StoredIsCurrent ==
    /\ [](Truthy(getItem(localStorage, "language"))
             => getItem(localStorage, "language") = currentLanguage)
    /\ [][(localStorage' # localStorage \/ setItemCalls' # setItemCalls)
             => /\ isBrowser
                /\ Len(calls') = Len(calls) + 1
                /\ currentLanguage' # currentLanguage
                /\ setItemCalls' = setItemCalls + 1
                /\ localStorage' = setItem(localStorage, "language", currentLanguage')]_vars

\* In a browser the first call changed the language from 'de' to 'en' and
\* a fetch has been answered since: the key is 'en', written once.
C18_Witness ==
    /\ isBrowser
    /\ setItemCalls = 1
    /\ ~NoCallYet
    /\ calls[1].changed
    /\ calls[1].pre.currentLanguage = De
    /\ getItem(localStorage, "language") = En
    /\ currentLanguage = En
    /\ \E r \in DOMAIN requests : requests[r].status # "pending"

====
